---- MODULE Spec2Model ----
(***************************************************************************)
(* The self-throttling Google API client layer: the token-bucket           *)
(* RateLimiter (rate-limiter.ts), the error taxonomy (types.ts) and the    *)
(* request / retry / refresh pipeline of GoogleApiClient (client.ts).      *)
(*                                                                         *)
(* Time is in milliseconds.  JavaScript runs one macrotask (a timer, a     *)
(* network response, a resolved callback, a new call) to completion, so    *)
(* every action below is the code between two suspension points.           *)
(* Token counts are exact rationals: state.tokens holds the token count    *)
(* multiplied by config.windowMs, so that `tokens >= 1` in the source is   *)
(* `state.tokens >= config.windowMs` here.                                 *)
(***************************************************************************)
EXTENDS Integers, Sequences, FiniteSets, TLC

\* ------------------------------------------------------------------ bounds
\* A limiter called directly is observed for MaxTick milliseconds, in 1 ms ticks.
MaxTick == 4
\* burstSize of the modelled profiles ranges over 1..MaxBurst.
MaxBurst == 2
\* windowMs of the modelled profiles.
WindowMs == 2
\* The pipeline is followed up to this many consecutive backoffs of the
\* limiter.
MaxBackoffAttempt == 6
\* backoff() is called directly only below this many consecutive backoffs.
MaxDirectBackoffs == 2
\* The refreshes of one request are counted up to MaxRefreshes.
MaxRefreshes == 2
\* The requests callers start on one client.
MaxRequests == 2
\* Direct acquire()/tryAcquire() grants counted per run of the limiter.
MaxGrants == 3
\* The factory is followed for this many clients made from one config.
MaxClients == 3
\* The clients of one config are followed for this many operations in all.
MaxOps == 3
\* A listing endpoint holds up to this many pages of up to this many items,
\* and is listed with no cap or with a cap up to MaxCap.
MaxPages == 3
MaxPageItems == 2
MaxCap == 3
\* One client is followed for this many transport calls.
MaxTransportCalls == 3

\* ------------------------------------------------------- program constants
maxRetries == 3
initialBackoffMs == 1000
maxBackoffMs == 30000
backoffMultiplier == 2
\* jitterFactor 0.1, as a percentage
jitterPercent == 10

UNAUTHORIZED == 401
FORBIDDEN == 403
NOT_FOUND == 404
RATE_LIMITED == 429
SERVER_ERROR == 500
SERVICE_UNAVAILABLE == 503

Procs == {"p1", "p2"}
None == 0 - 1

Min(a, b) == IF a <= b THEN a ELSE b
Max(a, b) == IF a >= b THEN a ELSE b

RECURSIVE Pow(_, _)
Pow(b, e) == IF e = 0 THEN 1 ELSE b * Pow(b, e - 1)

\* RateLimitConfig values a client can be built with (requestsPerMinute is
\* informational and never read).
RateLimitConfigs ==
  [ requestsPerUserPerMinute : {1, 3},
    burstSize : 1..MaxBurst,
    windowMs : {WindowMs} ]

VARIABLES
  now,                    \* Date.now()
  config,                 \* RateLimiter.config
  state,                  \* RateLimiter.state: tokens, lastRefill, backoffUntil
  currentBackoffAttempt,  \* RateLimiter.currentBackoffAttempt
  pc,                     \* where each caller is suspended
  wakeAt,                 \* deadline of the timer a caller sleeps on
  accessToken,            \* GoogleApiClient.accessToken
  retryCount,             \* GoogleApiClient.retryCount
  onTokenExpired,         \* whether a refresh callback is configured
  req,                    \* per caller: the logical request in progress
  finished,               \* what the step just taken delivered to a caller, if anything
  started,                \* the number of requests callers have started
  call,                   \* the arguments createApiError() is applied to on its own
  fcall,                  \* the shared ClientConfig and the tag the factory was last called with
  clients,                \* the client objects the factory has returned, in order
  limiters,               \* the RateLimiter objects constructed, by reference
  entry,                  \* per caller: the public operation it is inside
  listing,                \* the locals of the auto-paginating listing in progress
  transport,              \* transport calls issued and rate-limit tokens taken so far
  error,                  \* the error value the step just taken produced, if any
  lastTry,                \* what the last tryAcquire() returned
  granted,                \* tokens granted since the mark
  markTime,               \* start of the observed interval
  observed,               \* the last two getTokenCount() readings with no grant between
  shadow                  \* the bucket of the same run without its stats queries

limiterVars == <<config, state, currentBackoffAttempt>>
apartVars == <<call, fcall, clients, limiters>>
opVars == <<entry, listing, transport>>
clientVars == <<accessToken, retryCount, onTokenExpired, req, finished, started,
               apartVars, opVars, error>>
obsVars == <<lastTry, granted, markTime, observed, shadow>>
vars == <<now, config, state, currentBackoffAttempt, pc, wakeAt,
          accessToken, retryCount, onTokenExpired, req, finished, started,
          call, fcall, clients, limiters, entry, listing, transport, error,
          lastTry, granted, markTime, observed, shadow>>

\* ------------------------------------------------------------- RateLimiter

\* One token, in the units of state.tokens.
OneToken == config.windowMs

\* constructor: a full bucket, no backoff.
NewLimiterState(cfg) ==
  [ tokens |-> cfg.burstSize * cfg.windowMs, lastRefill |-> now, backoffUntil |-> 0 ]

isInBackoff == now < state.backoffUntil

getRemainingBackoff == Max(0, state.backoffUntil - now)

\* refillTokens as a bug would have it: the elapsed span is not consumed.
refillTokensKeepsLastRefill(st) ==
  [ st EXCEPT !.tokens = Min(config.burstSize * config.windowMs,
                              st.tokens + (now - st.lastRefill) * config.requestsPerUserPerMinute) ]

\* refillTokens as a bug would have it: no cap at burstSize.
refillTokensUncapped(st) ==
  [ st EXCEPT !.tokens = st.tokens + (now - st.lastRefill) * config.requestsPerUserPerMinute,
              !.lastRefill = now ]

\* refillTokens as a bug would have it: one token per window, whatever the rate.
refillTokensUnitRate(st) ==
  [ st EXCEPT !.tokens = Min(config.burstSize * config.windowMs,
                              st.tokens + (now - st.lastRefill)),
              !.lastRefill = now ]

\* refillTokens as a bug would have it: nothing is replenished.
refillTokensAddsNothing(st) == [ st EXCEPT !.lastRefill = now ]

refillTokens(st) ==
  [ st EXCEPT !.tokens = Min(config.burstSize * config.windowMs,
                              st.tokens + (now - st.lastRefill) * config.requestsPerUserPerMinute),
              !.lastRefill = now ]

\* Math.ceil(tokensNeeded / tokensPerMs)
calculateWaitTime(st) ==
  ((OneToken - st.tokens) + config.requestsPerUserPerMinute - 1)
    \div config.requestsPerUserPerMinute

\* calculateBackoffDelay as a bug would have it: the exponent is one too small.
calculateBackoffDelayFromZero(attempt) ==
  Min(initialBackoffMs * Pow(backoffMultiplier, attempt - 1), maxBackoffMs)

\* calculateBackoffDelay as a bug would have it: the delay grows by a constant step.
calculateBackoffDelayLinear(attempt) ==
  Min(initialBackoffMs * backoffMultiplier * attempt, maxBackoffMs)

\* calculateBackoffDelay(): min(initialBackoffMs * backoffMultiplier ^ currentBackoffAttempt, maxBackoffMs)
calculateBackoffDelay(attempt) ==
  Min(initialBackoffMs * Pow(backoffMultiplier, attempt), maxBackoffMs)

\* baseDelay * jitterFactor * Math.random(), Math.random() in [0, 1): the
\* smallest and the largest whole number of milliseconds it can add.
Jitters(baseDelay) ==
  {0} \cup { j \in {(baseDelay * jitterPercent) \div 100 - 1} : j > 0 }

\* The base delay backoff(retryAfterMs) waits: retryAfterMs ?? calculateBackoffDelay(),
\* read after currentBackoffAttempt was incremented.
backoffBaseDelay(retryAfterMs) ==
  IF retryAfterMs # None
  THEN retryAfterMs
  ELSE calculateBackoffDelay(currentBackoffAttempt + 1)

TotalDelays(retryAfterMs) ==
  { backoffBaseDelay(retryAfterMs) + j : j \in Jitters(backoffBaseDelay(retryAfterMs)) }

\* backoff(retryAfterMs) up to its sleep; totalDelay is baseDelay + jitter.
backoff(retryAfterMs, totalDelay) ==
  /\ totalDelay \in TotalDelays(retryAfterMs)
  /\ currentBackoffAttempt' = currentBackoffAttempt + 1
  /\ state' = [state EXCEPT !.backoffUntil = now + totalDelay]

\* resetBackoff as a bug would have it: the backoff window is left standing.
resetBackoffKeepsWindow(st) == st

\* resetBackoff(): backoffUntil = 0 (the counter is zeroed where it is called).
resetBackoff(st) == [st EXCEPT !.backoffUntil = 0]

\* acquireTail as a bug would have it: the caller goes on and no token is taken.
acquireTailTakesNothing(p, cont) ==
  LET st == refillTokens(state) IN
  IF st.tokens >= OneToken
  THEN /\ state' = st
       /\ pc' = [pc EXCEPT ![p] = cont]
       /\ wakeAt' = [wakeAt EXCEPT ![p] = None]
  ELSE /\ state' = st
       /\ pc' = [pc EXCEPT ![p] = "sleep"]
       /\ wakeAt' = [wakeAt EXCEPT ![p] = now + calculateWaitTime(st)]

\* acquire() after `await this.waitForBackoff()`: refill, then take a token
\* and continue at `cont`, or sleep calculateWaitTime() and call acquire() again.
acquireTail(p, cont) ==
  LET st == refillTokens(state) IN
  IF st.tokens >= OneToken
  THEN /\ state' = [st EXCEPT !.tokens = @ - OneToken]
       /\ pc' = [pc EXCEPT ![p] = cont]
       /\ wakeAt' = [wakeAt EXCEPT ![p] = None]
  ELSE /\ state' = st
       /\ pc' = [pc EXCEPT ![p] = "sleep"]
       /\ wakeAt' = [wakeAt EXCEPT ![p] = now + calculateWaitTime(st)]

\* acquire() from its first line: waitForBackoff() sleeps the remaining
\* backoff, read once, if there is any.
acquire(p, cont) ==
  IF getRemainingBackoff > 0
  THEN /\ state' = state
       /\ pc' = [pc EXCEPT ![p] = "waitForBackoff"]
       /\ wakeAt' = [wakeAt EXCEPT ![p] = now + getRemainingBackoff]
  ELSE acquireTail(p, cont)

\* The timer of waitForBackoff() fires: acquire() goes on to refillTokens().
WakeWaitForBackoff(p, cont) ==
  /\ pc[p] = "waitForBackoff"
  /\ now >= wakeAt[p]
  /\ acquireTail(p, cont)

\* The timer of sleep(waitTime) fires: `return this.acquire()`.
WakeSleep(p, cont) ==
  /\ pc[p] = "sleep"
  /\ now >= wakeAt[p]
  /\ acquire(p, cont)

\* tryAcquire() as a bug would have it: the backoff window is not looked at.
tryAcquireIgnoresBackoff ==
  LET st == refillTokens(state) IN
  /\ state' = IF st.tokens >= OneToken THEN [st EXCEPT !.tokens = @ - OneToken] ELSE st
  /\ lastTry' = IF st.tokens >= OneToken THEN "true" ELSE "false"

tryAcquire ==
  LET st == refillTokens(state) IN
  IF isInBackoff
  THEN /\ state' = state
       /\ lastTry' = "false"
  ELSE /\ state' = IF st.tokens >= OneToken THEN [st EXCEPT !.tokens = @ - OneToken] ELSE st
       /\ lastTry' = IF st.tokens >= OneToken THEN "true" ELSE "false"

\* getTokenCount as a bug would have it: the count is cut to whole tokens.
getTokenCountFloors ==
  state' = [refillTokens(state) EXCEPT !.tokens = (@ \div OneToken) * OneToken]

\* getTokenCount() / getStats(): refillTokens() and reads.
getTokenCount == state' = refillTokens(state)

\* ------------------------------------------------------ requests and time

\* The transport calls of one request are counted up to MaxCalls.
MaxCalls == maxRetries + MaxRefreshes + 1

\* What is recorded of the logical request a caller has in progress:
\*   calls, refreshes, retries   transport calls issued, refresh callbacks
\*                   invoked (counted up to MaxRefreshes) and backoff-retries
\*                   made for it so far (counted up to maxRetries + 1)
\*   alone429        it began on an idle client with retryCount 0, no other
\*                   request ran beside it, and every answer so far was 429
\*   bearer          while the transport call is out: the credential it carries
\*   status, body    while response.text() is awaited: the response
\* A response body, by what JSON.parse makes of it: json, it parses; null, to
\* null; hasError, to a value with an `error` object, whose message and whose
\* errors[0].message seconds follow.
NoBody ==
  [ json |-> FALSE, null |-> FALSE, hasError |-> FALSE, message |-> "none",
    retrySeconds |-> None ]

NoRequest ==
  [ calls |-> 0, refreshes |-> 0, retries |-> 0, alone429 |-> FALSE,
    bearer |-> "none", status |-> None, body |-> NoBody ]

\* No reading of getTokenCount() is remembered.
NoObservation == [ prevAt |-> None, prevTokens |-> None, at |-> None, tokens |-> None ]

\* An error value: the fields of GoogleApiError, absent ones as "none", None, <<>>.
NoError ==
  [ kind |-> "none", status |-> None, message |-> "none", apiType |-> "none",
    responseBody |-> <<>>, retryAfterMs |-> None ]

\* createApiError() has not been applied on its own.
NoCall == [ status |-> None, body |-> NoBody, apiType |-> "none" ]

\* The bucket of a limiter as constructed, on which every call so far agreed.
NewShadow ==
  [ tokens |-> config.burstSize * config.windowMs, lastRefill |-> 0, agree |-> TRUE ]

\* A ClientConfig: accessToken, whether onTokenExpired is given, and the fields
\* of rateLimits that are given, with their values.
NoFactoryCall ==
  [ api |-> "none",
    config |-> [ accessToken |-> "t0", onTokenExpired |-> FALSE, rateLimits |-> <<>> ] ]

\* No listing is in progress.  server is the pages the listing endpoint holds,
\* each the number of its items; sent is the page tokens of the requests made,
\* None for a request without one; status is "none", "listFiles" while a page
\* is awaited, "returned" or "thrown".
NoListing ==
  [ caller |-> "none", server |-> <<>>, maxResults |-> None, allFiles |-> <<>>,
    pageToken |-> None, sent |-> <<>>, status |-> "none", result |-> <<>> ]

\* Nothing has gone out and no token was taken.
NoTransport == [ calls |-> 0, consumed |-> 0 ]

NothingFinished == [ caller |-> "none", kind |-> "none", status |-> None ]

\* Pending timers: the sleeps of the callers and of an un-awaited backoff().
Deadlines ==
  { wakeAt[p] : p \in { q \in Procs : wakeAt[q] # None } } \cup {state.backoffUntil}

Tick ==
  /\ now < MaxTick
  /\ now' = now + 1
  /\ UNCHANGED <<limiterVars, pc, wakeAt, clientVars, obsVars>>

\* After this many milliseconds without a refill the bucket is full whatever
\* it held: refillTokens() cannot tell a longer idle span from this one.
SaturationSpan ==
  (config.burstSize * config.windowMs + config.requestsPerUserPerMinute - 1)
    \div config.requestsPerUserPerMinute

\* Time passes until a pending timer is due.  The code only ever compares a
\* stored timestamp with Date.now(), so the delta ms that pass are taken off
\* every stored timestamp instead of being added to now; a timestamp stops
\* sliding where the code can no longer tell the difference (an expired
\* deadline, a refill older than SaturationSpan).
AdvanceToTimer ==
  /\ markTime = None
  /\ observed = NoObservation
  /\ shadow = NewShadow
  /\ \E d \in Deadlines :
       /\ d > now
       /\ LET delta == d - now IN
          /\ state' = [state EXCEPT
               !.lastRefill = Max(@ - delta, now - SaturationSpan),
               !.backoffUntil = Max(@ - delta, 0)]
          /\ wakeAt' = [p \in Procs |->
               IF wakeAt[p] = None THEN None ELSE Max(wakeAt[p] - delta, 0)]
  /\ finished' = NothingFinished
  /\ error' = NoError
  /\ UNCHANGED <<now, config, currentBackoffAttempt, pc, accessToken, retryCount,
                 onTokenExpired, apartVars, opVars, req, started, obsVars>>

\* --------------------------------------- the limiter, called directly

Hints == {1, 3}

Init ==
  /\ now = 0
  /\ config \in RateLimitConfigs
  /\ state = NewLimiterState(config)
  /\ currentBackoffAttempt = 0
  /\ pc = [p \in Procs |-> "idle"]
  /\ wakeAt = [p \in Procs |-> None]
  /\ accessToken = "t0"
  /\ retryCount = 0
  /\ onTokenExpired = FALSE
  /\ req = [p \in Procs |-> NoRequest]
  /\ finished = NothingFinished
  /\ started = 0
  /\ call = NoCall
  /\ fcall = NoFactoryCall
  /\ clients = <<>>
  /\ limiters = <<>>
  /\ entry = [p \in Procs |-> "none"]
  /\ listing = NoListing
  /\ transport = NoTransport
  /\ error = NoError
  /\ lastTry = "none"
  /\ granted = 0
  /\ markTime = None
  /\ observed = NoObservation
  /\ shadow = NewShadow

\* acquire(), tryAcquire(), getTokenCount() as any code holding the limiter
\* calls them; obs says what the observer of the grants records.
CallAcquire(p) ==
  /\ pc[p] = "idle"
  /\ acquire(p, "acquired")
  /\ UNCHANGED <<now, config, currentBackoffAttempt, clientVars, lastTry>>

CallWakeWaitForBackoff(p) ==
  /\ WakeWaitForBackoff(p, "acquired")
  /\ UNCHANGED <<now, config, currentBackoffAttempt, clientVars, lastTry>>

CallWakeSleep(p) ==
  /\ WakeSleep(p, "acquired")
  /\ UNCHANGED <<now, config, currentBackoffAttempt, clientVars, lastTry>>

\* acquire() has resolved: its caller goes on.
Resolved(p) ==
  /\ pc[p] = "acquired"
  /\ pc' = [pc EXCEPT ![p] = "idle"]
  /\ UNCHANGED <<now, limiterVars, wakeAt, clientVars, obsVars>>

CallTryAcquire ==
  /\ tryAcquire
  /\ UNCHANGED <<now, config, currentBackoffAttempt, pc, wakeAt, clientVars>>

CallGetTokenCount ==
  /\ getTokenCount
  /\ UNCHANGED <<now, config, currentBackoffAttempt, pc, wakeAt, clientVars, obsVars>>

\* backoff(retryAfterMs) called with a hint and not awaited.
CallBackoff ==
  /\ currentBackoffAttempt < MaxDirectBackoffs
  /\ \E h \in Hints : \E d \in TotalDelays(h) : backoff(h, d)
  /\ UNCHANGED <<now, config, pc, wakeAt, clientVars, obsVars>>

\* resetBackoff() as a bug would have it: the counter is not zeroed.
CallResetBackoffKeepsCounter ==
  /\ state' = resetBackoff(state)
  /\ UNCHANGED <<now, config, currentBackoffAttempt, pc, wakeAt, clientVars, obsVars>>

CallResetBackoff ==
  /\ state' = resetBackoff(state)
  /\ currentBackoffAttempt' = 0
  /\ UNCHANGED <<now, config, pc, wakeAt, clientVars, obsVars>>

NoObs == UNCHANGED <<granted, markTime, observed, shadow>>

LimNext ==
  \/ \E p \in Procs : CallAcquire(p) /\ NoObs
  \/ \E p \in Procs : CallWakeWaitForBackoff(p) /\ NoObs
  \/ \E p \in Procs : CallWakeSleep(p) /\ NoObs
  \/ \E p \in Procs : Resolved(p)
  \/ CallTryAcquire /\ NoObs
  \/ CallGetTokenCount
  \/ CallBackoff
  \/ CallResetBackoff
  \/ Tick

LimSpec == Init /\ [][LimNext]_vars

\* The same limiter with an observer that counts the tokens granted from a
\* moment of its choice on.
Counted(p) ==
  /\ granted' = IF pc'[p] = "acquired" /\ markTime # None THEN granted + 1 ELSE granted
  /\ UNCHANGED <<markTime, observed, shadow>>

Mark ==
  /\ markTime = None
  /\ markTime' = now
  /\ UNCHANGED <<now, limiterVars, pc, wakeAt, clientVars, lastTry, granted, observed, shadow>>

RateNext ==
  \/ \E p \in Procs : CallAcquire(p) /\ Counted(p)
  \/ \E p \in Procs : CallWakeSleep(p) /\ Counted(p)
  \/ \E p \in Procs : Resolved(p)
  \/ /\ CallTryAcquire
     /\ granted' = IF lastTry' = "true" /\ markTime # None THEN granted + 1 ELSE granted
     /\ UNCHANGED <<markTime, observed, shadow>>
  \/ CallGetTokenCount
  \/ Mark
  \/ Tick

RateSpec == Init /\ [][RateNext]_vars

\* The same limiter with an observer that reads getTokenCount() and remembers
\* its last two readings for as long as no token is granted; no backoff() is
\* issued.
Consumed(p) ==
  /\ observed' = IF pc'[p] = "acquired" THEN NoObservation ELSE observed
  /\ UNCHANGED <<granted, markTime, shadow>>

Observe ==
  /\ getTokenCount
  /\ observed' = [ prevAt |-> observed.at, prevTokens |-> observed.tokens,
                   at |-> now, tokens |-> state'.tokens ]
  /\ UNCHANGED <<now, config, currentBackoffAttempt, pc, wakeAt, clientVars,
                 lastTry, granted, markTime, shadow>>

CountNext ==
  \/ \E p \in Procs : CallAcquire(p) /\ Consumed(p)
  \/ \E p \in Procs : CallWakeSleep(p) /\ Consumed(p)
  \/ \E p \in Procs : Resolved(p)
  \/ /\ CallTryAcquire
     /\ observed' = IF lastTry' = "true" THEN NoObservation ELSE observed
     /\ UNCHANGED <<granted, markTime, shadow>>
  \/ Observe
  \/ Tick

CountSpec == Init /\ [][CountNext]_vars

\* The same limiter followed together with the bucket it would have had no
\* stats query ever been made: every call but getStats() is applied to both,
\* and shadow.agree says that all of them returned the same in both.
ShadowState == [state EXCEPT !.tokens = shadow.tokens, !.lastRefill = shadow.lastRefill]

\* acquire() after waitForBackoff() on the other bucket.
ShadowAcquireTail(p) ==
  LET st == refillTokens(ShadowState) IN
  IF st.tokens >= OneToken
  THEN shadow' = [ tokens |-> st.tokens - OneToken, lastRefill |-> st.lastRefill,
                   agree |-> shadow.agree /\ pc'[p] = "acquired" ]
  ELSE shadow' = [ tokens |-> st.tokens, lastRefill |-> st.lastRefill,
                   agree |-> /\ shadow.agree
                             /\ pc'[p] = "sleep"
                             /\ wakeAt'[p] = now + calculateWaitTime(st) ]

\* acquire() on the other bucket.
ShadowAcquire(p) ==
  IF getRemainingBackoff > 0
  THEN shadow' = [shadow EXCEPT !.agree = @ /\ pc'[p] = "waitForBackoff"]
  ELSE ShadowAcquireTail(p)

\* tryAcquire() on the other bucket.
ShadowTryAcquire ==
  LET st == refillTokens(ShadowState) IN
  IF isInBackoff
  THEN shadow' = [shadow EXCEPT !.agree = @ /\ lastTry' = "false"]
  ELSE IF st.tokens >= OneToken
  THEN shadow' = [ tokens |-> st.tokens - OneToken, lastRefill |-> st.lastRefill,
                   agree |-> shadow.agree /\ lastTry' = "true" ]
  ELSE shadow' = [ tokens |-> st.tokens, lastRefill |-> st.lastRefill,
                   agree |-> shadow.agree /\ lastTry' = "false" ]

NoCount == UNCHANGED <<granted, markTime, observed>>

\* One caller of acquire() is followed, next to tryAcquire(), backoff() and
\* resetBackoff() called at any time.
StatsProcs == {"p1"}

StatsNext ==
  \/ \E p \in StatsProcs : CallAcquire(p) /\ ShadowAcquire(p) /\ NoCount
  \/ \E p \in StatsProcs : CallWakeWaitForBackoff(p) /\ ShadowAcquireTail(p) /\ NoCount
  \/ \E p \in StatsProcs : CallWakeSleep(p) /\ ShadowAcquire(p) /\ NoCount
  \/ \E p \in StatsProcs : Resolved(p)
  \/ CallTryAcquire /\ ShadowTryAcquire /\ NoCount
  \/ CallGetTokenCount
  \/ CallBackoff
  \/ CallResetBackoff
  \/ Tick

StatsSpec == Init /\ [][StatsNext]_vars

\* A limiter on which no backoff() is issued while an acquire() is pending;
\* MaxGrants tokens are asked for in all.
Pending == { p \in Procs : pc[p] # "idle" }

LiveCounted(p) ==
  /\ granted' = IF pc'[p] = "acquired" THEN granted + 1 ELSE granted
  /\ UNCHANGED <<markTime, observed, shadow>>

LiveNext ==
  \/ \E p \in Procs : /\ granted + Cardinality(Pending) < MaxGrants
                      /\ CallAcquire(p) /\ LiveCounted(p)
  \/ \E p \in Procs : CallWakeWaitForBackoff(p) /\ LiveCounted(p)
  \/ \E p \in Procs : CallWakeSleep(p) /\ LiveCounted(p)
  \/ \E p \in Procs : Resolved(p)
  \/ /\ granted + Cardinality(Pending) < MaxGrants
     /\ CallTryAcquire
     /\ granted' = IF lastTry' = "true" THEN granted + 1 ELSE granted
     /\ UNCHANGED <<markTime, observed, shadow>>
  \/ Pending = {} /\ CallBackoff
  \/ Tick
  \/ AdvanceToTimer

\* Timers fire and time goes on.
LiveSpec ==
  /\ Init
  /\ [][LiveNext]_vars
  /\ WF_vars(AdvanceToTimer)
  /\ \A p \in Procs : WF_vars(CallWakeWaitForBackoff(p) /\ LiveCounted(p))
  /\ \A p \in Procs : WF_vars(CallWakeSleep(p) /\ LiveCounted(p))

\* The limiter profile the clients are followed with: the rate of the sheets
\* profile, one token per 60000 / 60 ms, with a burst of one.
ClientConfigs ==
  { [ requestsPerUserPerMinute |-> 1, burstSize |-> 1, windowMs |-> 60000 \div 60 ] }

\* --------------------------------------------------------- ErrorTaxonomy

\* Response bodies: empty or not JSON; null; JSON with no `error` member, as
\* {}; {"error":{}}; {"error":{"message":"X"}}; the same with
\* errors[0].message = "Try again in 7 seconds".
JsonBody(null, hasError, message, retrySeconds) ==
  [ json |-> TRUE, null |-> null, hasError |-> hasError, message |-> message,
    retrySeconds |-> retrySeconds ]

Bodies ==
  { NoBody,
    JsonBody(TRUE, FALSE, "none", None),
    JsonBody(FALSE, FALSE, "none", None),
    JsonBody(FALSE, TRUE, "none", None),
    JsonBody(FALSE, TRUE, "X", None),
    JsonBody(FALSE, TRUE, "X", 7) }

\* createApiError, 429 branch: the first run of digits of errors[0].message,
\* parseInt(...) * 1000, else undefined.
retryAfterMs(status, body) ==
  IF status = RATE_LIMITED /\ body.hasError /\ body.retrySeconds # None
  THEN body.retrySeconds * 1000
  ELSE None

\* new GoogleApiError(status, message, apiType, responseBody) and its
\* subclasses, which pass their status and message on and nothing else.
GoogleApiError(status, message, apiType, body) ==
  [ kind |-> "GoogleApiError", status |-> status, message |-> message,
    apiType |-> apiType, responseBody |-> <<body>>, retryAfterMs |-> None ]

TokenExpiredError(message) ==
  [ NoError EXCEPT !.kind = "TokenExpiredError", !.status = 401, !.message = message ]

RateLimitError(retryMs, message) ==
  [ NoError EXCEPT !.kind = "RateLimitError", !.status = 429, !.message = message,
                   !.retryAfterMs = retryMs ]

PermissionDeniedError(message) ==
  [ NoError EXCEPT !.kind = "PermissionDeniedError", !.status = 403, !.message = message ]

NotFoundError(resource) ==
  [ NoError EXCEPT !.kind = "NotFoundError", !.status = 404,
                   !.message = resource \o " not found" ]

\* What the JavaScript runtime throws: reading a property of undefined
\* (TypeError), JSON.parse of a text that is not JSON (SyntaxError).
RuntimeError(kind) == [ NoError EXCEPT !.kind = kind ]

\* `parsed?.error.message` throws when the body parsed to a value that is not
\* null and has no `error` object.
createApiErrorThrows(body) == body.json /\ ~body.null /\ ~body.hasError

\* parsed?.error.message ?? `API error: ${String(status)}`
errorMessage(status, body) ==
  IF body.hasError /\ body.message # "none"
  THEN body.message
  ELSE "API error: " \o ToString(status)

\* createApiError(status, body, apiType): the error it returns, or the
\* TypeError it throws.
createApiError(status, body, apiType) ==
  IF createApiErrorThrows(body)
  THEN RuntimeError("TypeError")
  ELSE CASE status = UNAUTHORIZED -> TokenExpiredError(errorMessage(status, body))
         [] status = FORBIDDEN -> PermissionDeniedError(errorMessage(status, body))
         [] status = NOT_FOUND -> NotFoundError("Resource")
         [] status = RATE_LIMITED ->
              RateLimitError(retryAfterMs(status, body), errorMessage(status, body))
         [] OTHER -> GoogleApiError(status, errorMessage(status, body), apiType, body)

\* createApiError applied on its own, to every status and body.
ErrorStatuses == {400, 401, 403, 404, 409, 429, 500, 502, 503, 504}

ApiTypes == {"none", "sheets", "drive"}

ErrorInit ==
  /\ now = 0
  /\ config \in ClientConfigs
  /\ state = NewLimiterState(config)
  /\ currentBackoffAttempt = 0
  /\ pc = [p \in Procs |-> "idle"]
  /\ wakeAt = [p \in Procs |-> None]
  /\ accessToken = "t0"
  /\ retryCount = 0
  /\ onTokenExpired = FALSE
  /\ req = [p \in Procs |-> NoRequest]
  /\ finished = NothingFinished
  /\ started = 0
  /\ call \in [ status : ErrorStatuses, body : Bodies, apiType : ApiTypes ]
  /\ fcall = NoFactoryCall
  /\ clients = <<>>
  /\ limiters = <<>>
  /\ entry = [p \in Procs |-> "none"]
  /\ listing = NoListing
  /\ transport = NoTransport
  /\ error = NoError
  /\ lastTry = "none"
  /\ granted = 0
  /\ markTime = None
  /\ observed = NoObservation
  /\ shadow = NewShadow

CallCreateApiError ==
  /\ error = NoError
  /\ error' = createApiError(call.status, call.body, call.apiType)
  /\ UNCHANGED <<now, limiterVars, pc, wakeAt, accessToken, retryCount, onTokenExpired,
                 req, finished, started, apartVars, opVars, obsVars>>

ErrorNext == CallCreateApiError

ErrorSpec == ErrorInit /\ [][ErrorNext]_vars

\* What onTokenExpired() resolves to.
RefreshedTokens == {"t1"}

\* ---------------------------------------------------------- the factory

\* API_RATE_LIMITS
API_RATE_LIMITS ==
  [ drive |-> [ requestsPerMinute |-> 12000, requestsPerUserPerMinute |-> 2400,
                burstSize |-> 100, windowMs |-> 60000 ],
    sheets |-> [ requestsPerMinute |-> 300, requestsPerUserPerMinute |-> 60,
                 burstSize |-> 10, windowMs |-> 60000 ],
    calendar |-> [ requestsPerMinute |-> 1800, requestsPerUserPerMinute |-> 600,
                   burstSize |-> 50, windowMs |-> 60000 ] ]

\* API_ENDPOINTS
API_ENDPOINTS ==
  [ drive |-> "https://www.googleapis.com/drive/v3",
    sheets |-> "https://sheets.googleapis.com/v4",
    calendar |-> "https://www.googleapis.com/calendar/v3" ]

\* { ...API_RATE_LIMITS[apiType], ...config.rateLimits } as a bug would have
\* it: the defaults win.
mergeRateLimitsKeepsDefaults(defaults, rateLimits) == defaults

\* { ...API_RATE_LIMITS[apiType], ...config.rateLimits }
mergeRateLimits(defaults, rateLimits) ==
  [ f \in DOMAIN defaults |-> IF f \in DOMAIN rateLimits THEN rateLimits[f] ELSE defaults[f] ]

\* new RateLimiter(config)
RateLimiter(cfg) ==
  [ config |-> cfg,
    state |-> [ tokens |-> cfg.burstSize * cfg.windowMs, lastRefill |-> now,
                backoffUntil |-> 0 ],
    currentBackoffAttempt |-> 0 ]

\* new RateLimiter(...) as a bug would have it: the limiter made first is
\* handed to every client.
newRateLimiterShared(heap) == Min(1, Len(heap) + 1)

\* The reference of the RateLimiter object a constructor creates next, given
\* the objects there are.
newRateLimiter(heap) == Len(heap) + 1

\* The constructor of GoogleApiClient, called by the subclass of apiType.
GoogleApiClient(class, cfg, apiType, heap) ==
  [ class |-> class,
    accessToken |-> cfg.accessToken,
    apiType |-> apiType,
    baseUrl |-> API_ENDPOINTS[apiType],
    onTokenExpired |-> cfg.onTokenExpired,
    retryCount |-> 0,
    rateLimiter |-> newRateLimiter(heap) ]

\* The limiter objects after the constructor of a client of apiType has run:
\* the object at a reference that exists is that object.
Constructed(heap, ref, cfg, apiType) ==
  IF ref \in DOMAIN heap
  THEN heap
  ELSE Append(heap, RateLimiter(mergeRateLimits(API_RATE_LIMITS[apiType], cfg.rateLimits)))

\* googleApiClient as a bug would have it: an unknown tag gets a Drive client.
googleApiClientDefaultsToDrive(api, cfg, heap) ==
  CASE api = "sheets" -> GoogleApiClient("GoogleSheetsClient", cfg, "sheets", heap)
    [] api = "calendar" -> GoogleApiClient("GoogleCalendarClient", cfg, "calendar", heap)
    [] OTHER -> GoogleApiClient("GoogleDriveClient", cfg, "drive", heap)

\* googleApiClient(api, config): the client it returns, or the Error it throws.
googleApiClient(api, cfg, heap) ==
  CASE api = "drive" -> GoogleApiClient("GoogleDriveClient", cfg, "drive", heap)
    [] api = "sheets" -> GoogleApiClient("GoogleSheetsClient", cfg, "sheets", heap)
    [] api = "calendar" -> GoogleApiClient("GoogleCalendarClient", cfg, "calendar", heap)
    [] OTHER -> [ class |-> "Error", message |-> "Unknown API type: " \o api ]

\* The tags the factory is called with, and the rateLimits of the shared config.
ApiTags == {"drive", "sheets", "calendar", "invalid", "Drive"}

RateLimitFields == {"requestsPerMinute", "requestsPerUserPerMinute", "burstSize", "windowMs"}

OverrideValues ==
  [ requestsPerMinute |-> 5, requestsPerUserPerMinute |-> 30, burstSize |-> 2,
    windowMs |-> 1000 ]

ClientConfigInputs ==
  { [ accessToken |-> "t0", onTokenExpired |-> cb,
      rateLimits |-> [ f \in given |-> OverrideValues[f] ] ] :
      cb \in BOOLEAN, given \in SUBSET RateLimitFields }

\* Nothing has been made; the factory is about to be called with one of the
\* tags and one of the configs.
FactoryStart(apis, configs) ==
  /\ now = 0
  /\ config \in ClientConfigs
  /\ state = NewLimiterState(config)
  /\ currentBackoffAttempt = 0
  /\ pc = [p \in Procs |-> "idle"]
  /\ wakeAt = [p \in Procs |-> None]
  /\ accessToken = "t0"
  /\ retryCount = 0
  /\ onTokenExpired = FALSE
  /\ req = [p \in Procs |-> NoRequest]
  /\ finished = NothingFinished
  /\ started = 0
  /\ call = NoCall
  /\ fcall \in [ api : apis, config : configs ]
  /\ clients = <<>>
  /\ limiters = <<>>
  /\ entry = [p \in Procs |-> "none"]
  /\ listing = NoListing
  /\ transport = NoTransport
  /\ error = NoError
  /\ lastTry = "none"
  /\ granted = 0
  /\ markTime = None
  /\ observed = NoObservation
  /\ shadow = NewShadow

FactoryFrame ==
  UNCHANGED <<now, limiterVars, pc, wakeAt, accessToken, retryCount, onTokenExpired,
              req, finished, started, call, opVars, obsVars>>

\* googleApiClient(api, config) with the shared config.
CallGoogleApiClient(api) ==
  /\ Len(clients) < MaxClients
  /\ fcall' = [fcall EXCEPT !.api = api]
  /\ LET made == googleApiClient(api, fcall.config, limiters) IN
     IF made.class = "Error"
     THEN /\ error' = [NoError EXCEPT !.kind = "Error", !.message = made.message]
          /\ UNCHANGED <<clients, limiters>>
     ELSE /\ error' = NoError
          /\ clients' = Append(clients, made)
          /\ limiters' = Constructed(limiters, made.rateLimiter, fcall.config, made.apiType)
  /\ FactoryFrame

\* googleApiClient applied on its own, to every tag and config.
FactoryInit == FactoryStart(ApiTags, ClientConfigInputs)

ApplyGoogleApiClient ==
  /\ clients = <<>>
  /\ error = NoError
  /\ CallGoogleApiClient(fcall.api)

FactoryNext == ApplyGoogleApiClient

FactorySpec == FactoryInit /\ [][FactoryNext]_vars

\* getTokenCount() of a limiter object, in tokens.
getTokenCountOf(limiter) ==
  Min(limiter.config.burstSize * limiter.config.windowMs,
      limiter.state.tokens
        + (now - limiter.state.lastRefill) * limiter.config.requestsPerUserPerMinute)
    \div limiter.config.windowMs

\* ------------------------------------------- clients of one shared config

\* The shared configs: without rateLimits and with burstSize 2, with and
\* without a refresh callback.
SharedConfigs ==
  { c \in ClientConfigInputs : DOMAIN c.rateLimits \in { {}, {"burstSize"} } }

SharedInit == FactoryStart({"none"}, SharedConfigs)

\* createGoogleApiClients(config): googleApiClient of the three tags in turn.
CallCreateGoogleApiClients ==
  /\ Len(clients) + 3 <= MaxClients
  /\ LET drive == googleApiClient("drive", fcall.config, limiters)
         heap1 == Constructed(limiters, drive.rateLimiter, fcall.config, "drive")
         sheets == googleApiClient("sheets", fcall.config, heap1)
         heap2 == Constructed(heap1, sheets.rateLimiter, fcall.config, "sheets")
         calendar == googleApiClient("calendar", fcall.config, heap2)
         heap3 == Constructed(heap2, calendar.rateLimiter, fcall.config, "calendar")
     IN /\ clients' = clients \o <<drive, sheets, calendar>>
        /\ limiters' = heap3
  /\ fcall' = [fcall EXCEPT !.api = "none"]
  /\ error' = NoError
  /\ FactoryFrame

\* What a caller can see of client i: its credential, its retry counter and
\* the bucket and backoff state of its limiter.
View(i) ==
  LET limiter == limiters[clients[i].rateLimiter] IN
  [ accessToken |-> clients[i].accessToken,
    retryCount |-> clients[i].retryCount,
    tokens |-> limiter.state.tokens,
    backoffUntil |-> limiter.state.backoffUntil,
    currentBackoffAttempt |-> limiter.currentBackoffAttempt ]

\* The operations done so far on the clients, counted from what they left.
RECURSIVE Work(_)
Work(i) ==
  IF i = 0 THEN 0
  ELSE LET limiter == limiters[clients[i].rateLimiter] IN
       Work(i - 1)
         + clients[i].retryCount
         + (IF clients[i].accessToken = fcall.config.accessToken THEN 0 ELSE 1)
         + (limiter.config.burstSize * limiter.config.windowMs - limiter.state.tokens)
             \div limiter.config.windowMs

OpFrame ==
  /\ Work(Len(clients)) < MaxOps
  /\ error' = NoError
  /\ fcall' = [fcall EXCEPT !.api = "none"]
  /\ FactoryFrame

\* A request of client i passes acquire(): a token of its limiter is taken.
ClientAcquire(i) ==
  LET ref == clients[i].rateLimiter IN
  /\ limiters[ref].state.tokens >= limiters[ref].config.windowMs
  /\ limiters' = [limiters EXCEPT ![ref].state.tokens = @ - limiters[ref].config.windowMs]
  /\ UNCHANGED clients
  /\ OpFrame

\* A request of client i is answered 429: retryCount += 1 and backoff().
ClientBackoff(i) ==
  LET ref == clients[i].rateLimiter IN
  /\ clients' = [clients EXCEPT ![i].retryCount = @ + 1]
  /\ limiters' = [limiters EXCEPT
                    ![ref].currentBackoffAttempt = @ + 1,
                    ![ref].state.backoffUntil =
                       now + calculateBackoffDelay(limiters[ref].currentBackoffAttempt + 1)]
  /\ OpFrame

\* The refresh callback of client i resolves, or setAccessToken(token).
ClientSetAccessToken(i, token) ==
  /\ clients[i].accessToken # token
  /\ clients' = [clients EXCEPT ![i].accessToken = token]
  /\ UNCHANGED limiters
  /\ OpFrame

SharedNext ==
  \/ CallCreateGoogleApiClients
  \/ \E api \in ApiTags : CallGoogleApiClient(api)
  \/ \E i \in DOMAIN clients : ClientAcquire(i)
  \/ \E i \in DOMAIN clients : ClientBackoff(i)
  \/ \E i \in DOMAIN clients, token \in RefreshedTokens : ClientSetAccessToken(i, token)

SharedSpec == SharedInit /\ [][SharedNext]_vars

\* The apiType the client was constructed with.
ClientApiType == IF fcall.api = "none" THEN "sheets" ELSE fcall.api

Statuses == {200, 204, 401, 403, 404, 429, 500, 502, 503}

\* The responses the transport gives: a 204 with no content and a 200 with a
\* JSON value; a 401, whose body handleError() never looks at, with no JSON;
\* a 429 with no JSON and with a retry-after hint; every other status with no
\* JSON and with JSON that has no `error` member.
Responses ==
  { <<status, body>> \in Statuses \X Bodies :
      CASE status = 204 -> body = NoBody
        [] status = 200 -> body = JsonBody(FALSE, FALSE, "none", None)
        [] status = UNAUTHORIZED -> body = NoBody
        [] status = RATE_LIMITED -> body \in { NoBody, JsonBody(FALSE, TRUE, "X", 7) }
        [] OTHER -> body \in { NoBody, JsonBody(FALSE, FALSE, "none", None) } }

\* response.ok
Ok(status) == status \in 200..299

Others(p) == Procs \ {p}

\* Issued as a bug would have it: the credential is the one the client was
\* constructed with.
IssuedWithFirstToken(p, r, token) ==
  IF pc'[p] = "fetch"
  THEN [r EXCEPT !.calls = Min(@ + 1, MaxCalls), !.bearer = "t0"]
  ELSE r

\* request() has passed acquire(): the transport call goes out with the
\* credential held at that moment.
Issued(p, r, token) ==
  IF pc'[p] = "fetch"
  THEN [r EXCEPT !.calls = Min(@ + 1, MaxCalls), !.bearer = token]
  ELSE r

\* A caller invokes a typed operation: request() from its first line.
StartRequest(p) ==
  /\ pc[p] = "idle"
  /\ acquire(p, "fetch")
  /\ req' = [q \in Procs |->
               IF q = p
               THEN Issued(p, [NoRequest EXCEPT
                      !.alone429 = (retryCount = 0 /\ \A o \in Others(p) : pc[o] = "idle")],
                      accessToken)
               ELSE [req[q] EXCEPT !.alone429 = @ /\ pc[q] = "idle"]]
  /\ started < MaxRequests
  /\ started' = started + 1
  /\ UNCHANGED <<now, config, currentBackoffAttempt, accessToken, retryCount,
                 onTokenExpired, apartVars, obsVars>>
  /\ finished' = NothingFinished
  /\ error' = NoError

ClientWakeWaitForBackoff(p) ==
  /\ WakeWaitForBackoff(p, "fetch")
  /\ req' = [req EXCEPT ![p] = Issued(p, @, accessToken)]
  /\ UNCHANGED <<now, config, currentBackoffAttempt, accessToken, retryCount,
                 onTokenExpired, apartVars, started, obsVars>>
  /\ finished' = NothingFinished
  /\ error' = NoError

ClientWakeSleep(p) ==
  /\ WakeSleep(p, "fetch")
  /\ req' = [req EXCEPT ![p] = Issued(p, @, accessToken)]
  /\ UNCHANGED <<now, config, currentBackoffAttempt, accessToken, retryCount,
                 onTokenExpired, apartVars, started, obsVars>>
  /\ finished' = NothingFinished
  /\ error' = NoError

\* The request ends: the value is returned or the error thrown to the caller.
Finish(p, kind, status) ==
  /\ pc' = [pc EXCEPT ![p] = "idle"]
  /\ req' = [req EXCEPT ![p] = NoRequest]
  /\ finished' = [ caller |-> p, kind |-> kind, status |-> status ]
  /\ UNCHANGED wakeAt

\* retryCount += 1; await this.rateLimiter.backoff()
BackoffAndRetry(p) ==
  /\ currentBackoffAttempt < MaxBackoffAttempt
  /\ retryCount' = retryCount + 1
  /\ \E d \in TotalDelays(None) :
       /\ backoff(None, d)
       /\ wakeAt' = [wakeAt EXCEPT ![p] = now + d]
  /\ pc' = [pc EXCEPT ![p] = "backoff"]
  /\ req' = [req EXCEPT ![p] = [@ EXCEPT !.retries = Min(@ + 1, maxRetries + 1),
                                         !.status = None, !.body = NoBody]]
  /\ finished' = NothingFinished
  /\ error' = NoError

\* this.accessToken = await this.onTokenExpired(): the callback is invoked.
Refresh(p) ==
  /\ pc' = [pc EXCEPT ![p] = "onTokenExpired"]
  /\ req' = [req EXCEPT ![p] = [@ EXCEPT !.refreshes = Min(@ + 1, MaxRefreshes),
                                         !.status = None, !.body = NoBody]]
  /\ finished' = NothingFinished
  /\ error' = NoError
  /\ UNCHANGED wakeAt

\* handleUnauthorized as a bug would have it: a refresh uses up a retry.
handleUnauthorizedCountsRefresh(p) ==
  /\ UNCHANGED <<state, currentBackoffAttempt>>
  /\ IF onTokenExpired
     THEN Refresh(p) /\ retryCount' = retryCount + 1
     ELSE /\ Finish(p, "TokenExpiredError", UNAUTHORIZED)
          /\ error' = TokenExpiredError("Access token has expired")
          /\ UNCHANGED retryCount

\* handleError(), the branch of a 401: refresh, or throw without a callback.
handleUnauthorized(p) ==
  /\ UNCHANGED <<state, currentBackoffAttempt, retryCount>>
  /\ IF onTokenExpired
     THEN Refresh(p)
     ELSE /\ Finish(p, "TokenExpiredError", UNAUTHORIZED)
          /\ error' = TokenExpiredError("Access token has expired")

\* handleError(status, body, path, options) up to its first suspension.
handleError(p, status, body) ==
  IF status = UNAUTHORIZED
  THEN handleUnauthorized(p)
  ELSE IF status = RATE_LIMITED
  THEN IF retryCount >= maxRetries
       THEN /\ retryCount' = 0
            /\ Finish(p, "RateLimitError", RATE_LIMITED)
            /\ error' = RateLimitError(None, "Max retries exceeded for rate limit")
            /\ UNCHANGED <<state, currentBackoffAttempt>>
       ELSE BackoffAndRetry(p)
  ELSE IF status = SERVER_ERROR \/ status = SERVICE_UNAVAILABLE
  THEN IF retryCount >= maxRetries
       THEN /\ retryCount' = 0
            /\ Finish(p, createApiError(status, body, ClientApiType).kind, status)
            /\ error' = createApiError(status, body, ClientApiType)
            /\ UNCHANGED <<state, currentBackoffAttempt>>
       ELSE BackoffAndRetry(p)
  ELSE /\ Finish(p, createApiError(status, body, ClientApiType).kind, status)
       /\ error' = createApiError(status, body, ClientApiType)
       /\ UNCHANGED <<state, currentBackoffAttempt, retryCount>>

\* The response of the transport call arrives: request() from `if (response.ok)`
\* to `return response.json()`, which resolves to the parsed body or rejects
\* with a SyntaxError, or to `await response.text()`.
Respond(p, status, body) ==
  /\ pc[p] = "fetch"
  /\ IF Ok(status)
     THEN /\ state' = resetBackoff(state)
          /\ currentBackoffAttempt' = 0
          /\ retryCount' = 0
          /\ IF body.json
             THEN Finish(p, "ok", status) /\ error' = NoError
             ELSE Finish(p, "SyntaxError", status) /\ error' = RuntimeError("SyntaxError")
     ELSE /\ pc' = [pc EXCEPT ![p] = "text"]
          /\ req' = [req EXCEPT ![p] = [@ EXCEPT !.bearer = "none",
                                                 !.status = status, !.body = body,
                                                 !.alone429 = @ /\ status = RATE_LIMITED]]
          /\ finished' = NothingFinished
          /\ error' = NoError
          /\ UNCHANGED <<state, currentBackoffAttempt, retryCount, wakeAt>>
  /\ UNCHANGED <<now, config, accessToken, onTokenExpired, apartVars, started, obsVars>>

\* response.text() resolves: handleError(response.status, body, path, options).
HandleError(p) ==
  /\ pc[p] = "text"
  /\ handleError(p, req[p].status, req[p].body)
  /\ UNCHANGED <<now, config, accessToken, onTokenExpired, apartVars, started, obsVars>>

\* onTokenExpired() resolves: the credential is replaced and request() re-entered.
RefreshDone(p, token) ==
  /\ pc[p] = "onTokenExpired"
  /\ accessToken' = token
  /\ acquire(p, "fetch")
  /\ req' = [req EXCEPT ![p] = Issued(p, @, token)]
  /\ UNCHANGED <<now, config, currentBackoffAttempt, retryCount, onTokenExpired, apartVars,
                 started, obsVars>>
  /\ finished' = NothingFinished
  /\ error' = NoError

\* The sleep of backoff() ends: request() is re-entered.
WakeBackoff(p) ==
  /\ pc[p] = "backoff"
  /\ now >= wakeAt[p]
  /\ acquire(p, "fetch")
  /\ req' = [req EXCEPT ![p] = Issued(p, @, accessToken)]
  /\ UNCHANGED <<now, config, currentBackoffAttempt, accessToken, retryCount,
                 onTokenExpired, apartVars, started, obsVars>>
  /\ finished' = NothingFinished
  /\ error' = NoError

\* A client as constructed, with or without a refresh callback.
ClientInit ==
  \E cb \in BOOLEAN :
    /\ now = 0
    /\ config \in ClientConfigs
    /\ state = NewLimiterState(config)
    /\ currentBackoffAttempt = 0
    /\ pc = [p \in Procs |-> "idle"]
    /\ wakeAt = [p \in Procs |-> None]
    /\ accessToken = "t0"
    /\ retryCount = 0
    /\ onTokenExpired = cb
    /\ req = [p \in Procs |-> NoRequest]
    /\ finished = NothingFinished
    /\ started = 0
    /\ call = NoCall
    /\ fcall = NoFactoryCall
    /\ clients = <<>>
    /\ limiters = <<>>
    /\ entry = [p \in Procs |-> "none"]
    /\ listing = NoListing
    /\ transport = NoTransport
    /\ error = NoError
    /\ lastTry = "none"
    /\ granted = 0
    /\ markTime = None
    /\ observed = NoObservation
    /\ shadow = NewShadow

\* One client on which callers only ever invoke request().
Next ==
  \/ \E p \in Procs : StartRequest(p) /\ UNCHANGED opVars
  \/ \E p \in Procs : ClientWakeWaitForBackoff(p) /\ UNCHANGED opVars
  \/ \E p \in Procs : ClientWakeSleep(p) /\ UNCHANGED opVars
  \/ \E p \in Procs, r \in Responses : Respond(p, r[1], r[2]) /\ UNCHANGED opVars
  \/ \E p \in Procs : HandleError(p) /\ UNCHANGED opVars
  \/ \E p \in Procs, token \in RefreshedTokens : RefreshDone(p, token) /\ UNCHANGED opVars
  \/ \E p \in Procs : WakeBackoff(p) /\ UNCHANGED opVars
  \/ AdvanceToTimer

Spec == ClientInit /\ [][Next]_vars

\* ------------------------------------------- auto-paginating listings

\* What a listing endpoint holds: the number of items of each of its pages.
Servers == UNION { [1..n -> 0..MaxPageItems] : n \in 1..MaxPages }

\* The items of page i, each named by its page and its place in it.
PageFiles(server, i) == [ j \in 1..server[i] |-> <<i, j>> ]

\* The page token the endpoint gives with page i: the one that asks for the
\* page after it, none with the last.
NextPageToken(server, i) == IF i < Len(server) THEN i + 1 ELSE None

\* The response of listFiles() / listEvents() to a request with this page token.
ListResponse(server, pageToken) ==
  LET i == IF pageToken = None THEN 1 ELSE pageToken IN
  [ files |-> PageFiles(server, i), nextPageToken |-> NextPageToken(server, i) ]

\* Whether `maxResults && ...` goes on to its right operand.
Truthy(maxResults) == maxResults # None /\ maxResults # 0

\* Array.prototype.slice(0, n), n >= 0
slice(array, n) == SubSeq(array, 1, Min(n, Len(array)))

\* listAllFiles(options, maxResults) / listAllEvents(calendarId, options,
\* maxResults) up to the first `await this.listFiles(...)`.
listAll(p, server, maxResults) ==
  [ caller |-> p, server |-> server, maxResults |-> maxResults, allFiles |-> <<>>,
    pageToken |-> None, sent |-> <<None>>, status |-> "listFiles", result |-> <<>> ]

\* The awaited page arrives: the rest of the loop body, then either a return
\* or the next `await this.listFiles(...)`.
pageReceived(l, response) ==
  LET allFiles == l.allFiles \o response.files
      pageToken == response.nextPageToken
  IN
  IF Truthy(l.maxResults) /\ Len(allFiles) >= l.maxResults
  THEN [ l EXCEPT !.allFiles = allFiles, !.pageToken = pageToken,
                  !.status = "returned", !.result = slice(allFiles, l.maxResults) ]
  ELSE IF pageToken # None
  THEN [ l EXCEPT !.allFiles = allFiles, !.pageToken = pageToken,
                  !.sent = Append(@, pageToken) ]
  ELSE [ l EXCEPT !.allFiles = allFiles, !.pageToken = pageToken,
                  !.status = "returned", !.result = allFiles ]

\* The awaited listFiles() rejects: the error leaves the listing.
pageFailed(l) == [ l EXCEPT !.status = "thrown" ]

\* A Drive client, an endpoint and a cap, before the listing is called.
PageInit ==
  /\ now = 0
  /\ config \in ClientConfigs
  /\ state = NewLimiterState(config)
  /\ currentBackoffAttempt = 0
  /\ pc = [p \in Procs |-> "idle"]
  /\ wakeAt = [p \in Procs |-> None]
  /\ accessToken = "t0"
  /\ retryCount = 0
  /\ onTokenExpired = FALSE
  /\ req = [p \in Procs |-> NoRequest]
  /\ finished = NothingFinished
  /\ started = 0
  /\ call = NoCall
  /\ fcall = NoFactoryCall
  /\ clients = <<>>
  /\ limiters = <<>>
  /\ entry = [p \in Procs |-> "none"]
  /\ listing \in { [NoListing EXCEPT !.server = server, !.maxResults = maxResults] :
                     server \in Servers, maxResults \in {None} \cup 0..MaxCap }
  /\ transport = NoTransport
  /\ error = NoError
  /\ lastTry = "none"
  /\ granted = 0
  /\ markTime = None
  /\ observed = NoObservation
  /\ shadow = NewShadow

PageFrame ==
  UNCHANGED <<now, limiterVars, pc, wakeAt, accessToken, retryCount, onTokenExpired,
              req, finished, started, apartVars, entry, transport, error, obsVars>>

\* The listing is called on the endpoint, with the cap.
CallListAll(p) ==
  /\ listing.status = "none"
  /\ listing' = listAll(p, listing.server, listing.maxResults)
  /\ PageFrame

\* listFiles() resolves with the page the token it sent asks for.
ListFilesResolves ==
  /\ listing.status = "listFiles"
  /\ listing' = pageReceived(listing,
                   ListResponse(listing.server, listing.sent[Len(listing.sent)]))
  /\ PageFrame

\* listFiles() rejects: request() threw.
ListFilesRejects ==
  /\ listing.status = "listFiles"
  /\ listing' = pageFailed(listing)
  /\ PageFrame

PageNext ==
  \/ CallListAll("p1")
  \/ ListFilesResolves
  \/ ListFilesRejects

PageSpec == PageInit /\ [][PageNext]_vars

\* ------------------------------------- every operation of one client

\* Transport calls that go out in the step: fetch() is called where a caller
\* passes acquire(), in request() and in downloadFile().
Called ==
  Cardinality({ p \in Procs : pc[p] \notin {"fetch", "download"}
                               /\ pc'[p] \in {"fetch", "download"} })

\* Tokens the step takes out of the bucket: what a refill at this moment
\* would have left in it, less what the step leaves.
Taken ==
  IF state'.lastRefill = now
  THEN (refillTokens(state).tokens - state'.tokens) \div OneToken
  ELSE 0

\* The step is counted; a client is followed up to MaxTransportCalls calls.
Metered ==
  /\ transport' = [ calls |-> transport.calls + Called,
                    consumed |-> transport.consumed + Taken ]
  /\ transport'.calls <= MaxTransportCalls

\* The listing of caller p awaits a page.
Listing(p) == listing.caller = p /\ listing.status = "listFiles"

\* The page of a listing has arrived and its next request is not yet made:
\* the rest of the loop body runs before anything else does.
BetweenPages == listing.status = "listFiles" /\ pc[listing.caller] = "idle"

\* What the step makes of the listing of caller p: request() returned the
\* page to listFiles(), threw, or is still under way.
Listed(p) ==
  listing' =
    IF Listing(p) /\ finished'.caller = p
    THEN IF finished'.kind = "ok"
         THEN pageReceived(listing,
                ListResponse(listing.server, listing.sent[Len(listing.sent)]))
         ELSE pageFailed(listing)
    ELSE listing

\* The operations a client offers: request() through get/post/..., with
\* listSpreadsheets() on a GoogleSheetsClient, and listAllFiles() and
\* downloadFile() on a GoogleDriveClient.
InRequest(p) == entry[p] \in {"request", "listSpreadsheets", "listAllFiles"}

\* get(), post(), ...: request().
CallRequest(p) ==
  /\ ~BetweenPages
  /\ StartRequest(p)
  /\ entry' = [entry EXCEPT ![p] = "request"]
  /\ UNCHANGED listing
  /\ Metered

\* listSpreadsheets(): request() with the address of the Drive files endpoint.
CallListSpreadsheets(p) ==
  /\ ~BetweenPages
  /\ fcall.api = "sheets"
  /\ StartRequest(p)
  /\ entry' = [entry EXCEPT ![p] = "listSpreadsheets"]
  /\ UNCHANGED listing
  /\ Metered

\* listAllFiles(options, maxResults): the first listFiles() is request().
CallListAllFiles(p, server, maxResults) ==
  /\ ~BetweenPages
  /\ fcall.api = "drive"
  /\ listing.status # "listFiles"
  /\ StartRequest(p)
  /\ entry' = [entry EXCEPT ![p] = "listAllFiles"]
  /\ listing' = listAll(p, server, maxResults)
  /\ Metered

\* The loop of listAllFiles() goes round: listFiles() with the page token.
NextPage(p) ==
  /\ BetweenPages
  /\ Listing(p)
  /\ StartRequest(p)
  /\ UNCHANGED <<entry, listing>>
  /\ Metered

RequestWakeWaitForBackoff(p) ==
  /\ ~BetweenPages
  /\ InRequest(p)
  /\ ClientWakeWaitForBackoff(p)
  /\ UNCHANGED <<entry, listing>>
  /\ Metered

RequestWakeSleep(p) ==
  /\ ~BetweenPages
  /\ InRequest(p)
  /\ ClientWakeSleep(p)
  /\ UNCHANGED <<entry, listing>>
  /\ Metered

RequestRespond(p, status, body) ==
  /\ ~BetweenPages
  /\ Respond(p, status, body)
  /\ Listed(p)
  /\ UNCHANGED entry
  /\ Metered

RequestHandleError(p) ==
  /\ ~BetweenPages
  /\ HandleError(p)
  /\ Listed(p)
  /\ UNCHANGED entry
  /\ Metered

RequestRefreshDone(p, token) ==
  /\ ~BetweenPages
  /\ RefreshDone(p, token)
  /\ UNCHANGED <<entry, listing>>
  /\ Metered

RequestWakeBackoff(p) ==
  /\ ~BetweenPages
  /\ WakeBackoff(p)
  /\ UNCHANGED <<entry, listing>>
  /\ Metered

\* downloadFile() has passed acquire(): fetch() goes out with the credential.
DownloadIssued(p, r, token) ==
  IF pc'[p] = "download"
  THEN [r EXCEPT !.calls = Min(@ + 1, MaxCalls), !.bearer = token]
  ELSE r

DownloadFrame ==
  /\ UNCHANGED <<now, config, accessToken, retryCount, onTokenExpired, apartVars,
                 entry, listing, obsVars>>
  /\ Metered

\* downloadFile(fileId) from its first line.
CallDownloadFile(p) ==
  /\ ~BetweenPages
  /\ fcall.api = "drive"
  /\ pc[p] = "idle"
  /\ started < MaxRequests
  /\ started' = started + 1
  /\ acquire(p, "download")
  /\ req' = [req EXCEPT ![p] = DownloadIssued(p, NoRequest, accessToken)]
  /\ entry' = [entry EXCEPT ![p] = "downloadFile"]
  /\ finished' = NothingFinished
  /\ error' = NoError
  /\ UNCHANGED <<now, config, currentBackoffAttempt, accessToken, retryCount,
                 onTokenExpired, apartVars, listing, obsVars>>
  /\ Metered

DownloadWakeWaitForBackoff(p) ==
  /\ ~BetweenPages
  /\ entry[p] = "downloadFile"
  /\ WakeWaitForBackoff(p, "download")
  /\ req' = [req EXCEPT ![p] = DownloadIssued(p, @, accessToken)]
  /\ finished' = NothingFinished
  /\ error' = NoError
  /\ UNCHANGED <<currentBackoffAttempt, started>>
  /\ DownloadFrame

DownloadWakeSleep(p) ==
  /\ ~BetweenPages
  /\ entry[p] = "downloadFile"
  /\ WakeSleep(p, "download")
  /\ req' = [req EXCEPT ![p] = DownloadIssued(p, @, accessToken)]
  /\ finished' = NothingFinished
  /\ error' = NoError
  /\ UNCHANGED <<currentBackoffAttempt, started>>
  /\ DownloadFrame

\* downloadResponded as a bug would have it: a failed download goes through
\* handleError() as a failed request() does.
downloadRespondedLikeRequest(p, status, body) ==
  IF Ok(status)
  THEN /\ state' = resetBackoff(state)
       /\ currentBackoffAttempt' = 0
       /\ Finish(p, "ok", status)
       /\ error' = NoError
       /\ UNCHANGED retryCount
  ELSE handleError(p, status, body)

\* downloadFile() from `if (!response.ok)`: `await response.text()`, or
\* resetBackoff() and the blob.
downloadResponded(p, status, body) ==
  IF Ok(status)
  THEN /\ state' = resetBackoff(state)
       /\ currentBackoffAttempt' = 0
       /\ Finish(p, "ok", status)
       /\ error' = NoError
       /\ UNCHANGED retryCount
  ELSE /\ pc' = [pc EXCEPT ![p] = "downloadText"]
       /\ req' = [req EXCEPT ![p] = [@ EXCEPT !.bearer = "none",
                                              !.status = status, !.body = body]]
       /\ finished' = NothingFinished
       /\ error' = NoError
       /\ UNCHANGED <<state, currentBackoffAttempt, retryCount, wakeAt>>

\* The response of the transport call of downloadFile() arrives.
DownloadRespond(p, status, body) ==
  /\ ~BetweenPages
  /\ pc[p] = "download"
  /\ downloadResponded(p, status, body)
  /\ UNCHANGED started
  /\ DownloadFrame

\* response.text() resolves: `throw new Error('Failed to download file: ...')`,
\* whose message goes on with the text of the body.
DownloadThrow(p) ==
  /\ ~BetweenPages
  /\ pc[p] = "downloadText"
  /\ Finish(p, "Error", req[p].status)
  /\ error' = [ NoError EXCEPT !.kind = "Error",
                   !.message = "Failed to download file: " \o ToString(req[p].status) ]
  /\ UNCHANGED <<state, currentBackoffAttempt, started>>
  /\ DownloadFrame

\* Time passes while no loop body is half run.
TransportAdvanceToTimer ==
  /\ ~BetweenPages
  /\ AdvanceToTimer

\* The endpoints and caps the listing is called with.
TransportListings ==
  { <<server, maxResults>> \in Servers \X {None, 1} :
      Len(server) = 2 /\ \A i \in 1..2 : server[i] = 1 }

\* The responses the transport gives here: a success, and a failure of each
\* kind that request() answers with a refresh or a retry.
TransportResponses ==
  { r \in Responses : r[1] \in {200, UNAUTHORIZED, RATE_LIMITED} /\ r[2].retrySeconds = None }

\* A client made by googleApiClient('drive' or 'sheets', config), with or
\* without a refresh callback.
TransportInit ==
  \E cb \in BOOLEAN :
    /\ now = 0
    /\ config \in ClientConfigs
    /\ state = NewLimiterState(config)
    /\ currentBackoffAttempt = 0
    /\ pc = [p \in Procs |-> "idle"]
    /\ wakeAt = [p \in Procs |-> None]
    /\ accessToken = "t0"
    /\ retryCount = 0
    /\ onTokenExpired = cb
    /\ req = [p \in Procs |-> NoRequest]
    /\ finished = NothingFinished
    /\ started = 0
    /\ call = NoCall
    /\ fcall \in { [NoFactoryCall EXCEPT !.api = api, !.config.onTokenExpired = cb] :
                    api \in {"drive", "sheets"} }
    /\ clients = <<>>
    /\ limiters = <<>>
    /\ entry = [p \in Procs |-> "none"]
    /\ listing = NoListing
    /\ transport = NoTransport
    /\ error = NoError
    /\ lastTry = "none"
    /\ granted = 0
    /\ markTime = None
    /\ observed = NoObservation
    /\ shadow = NewShadow

TransportNext ==
  \/ \E p \in Procs : CallRequest(p)
  \/ \E p \in Procs : CallListSpreadsheets(p)
  \/ \E p \in Procs, l \in TransportListings : CallListAllFiles(p, l[1], l[2])
  \/ \E p \in Procs : NextPage(p)
  \/ \E p \in Procs : CallDownloadFile(p)
  \/ \E p \in Procs : RequestWakeWaitForBackoff(p)
  \/ \E p \in Procs : RequestWakeSleep(p)
  \/ \E p \in Procs, r \in TransportResponses : RequestRespond(p, r[1], r[2])
  \/ \E p \in Procs : RequestHandleError(p)
  \/ \E p \in Procs, token \in RefreshedTokens : RequestRefreshDone(p, token)
  \/ \E p \in Procs : RequestWakeBackoff(p)
  \/ \E p \in Procs : DownloadWakeWaitForBackoff(p)
  \/ \E p \in Procs : DownloadWakeSleep(p)
  \/ \E p \in Procs, r \in TransportResponses : DownloadRespond(p, r[1], r[2])
  \/ \E p \in Procs : DownloadThrow(p)
  \/ TransportAdvanceToTimer

TransportSpec == TransportInit /\ [][TransportNext]_vars

\* ------------------------------------------------------------------ claims

\* C3: in every reachable state of a RateLimiter, after any interleaving of
\* acquire, tryAcquire, getTokenCount, backoff, resetBackoff and time
\* advancing, 0 <= tokens <= burstSize.
TokensInRange ==
  /\ 0 <= state.tokens
  /\ state.tokens <= config.burstSize * config.windowMs

\* A bucket that was drawn from and, later, refilled up to the cap.
TokensInRangeWitness ==
  /\ lastTry = "true"
  /\ state.lastRefill = MaxTick
  /\ state.tokens = config.burstSize * config.windowMs

\* C4: in an interval of T ms one limiter grants at most
\* burstSize + T * requestsPerUserPerMinute / windowMs tokens, however many
\* refill computations happen inside the interval.
GrantsWithinRate ==
  markTime # None =>
    granted * config.windowMs <=
      config.burstSize * config.windowMs
        + (now - markTime) * config.requestsPerUserPerMinute

\* The bound is met exactly after time has passed and tokens were refilled.
GrantsWithinRateWitness ==
  /\ markTime # None
  /\ now > markTime
  /\ granted > config.burstSize
  /\ granted * config.windowMs =
       config.burstSize * config.windowMs
         + (now - markTime) * config.requestsPerUserPerMinute

AcquireResolvesOutsideBackoff ==
  [][ \A p \in Procs :
        (pc[p] # "acquired" /\ pc'[p] = "acquired") =>
          LET refilled == Min(config.burstSize * config.windowMs,
                              state.tokens + (now - state.lastRefill)
                                               * config.requestsPerUserPerMinute)
          IN /\ ~(now < state.backoffUntil)
             /\ refilled >= OneToken
             /\ state'.tokens = refilled - OneToken ]_vars

\* C7: tryAcquire() never suspends; it returns true exactly when the limiter
\* is not in a backoff window and the replenished token count is at least 1,
\* and then takes exactly one token; when it returns false no token is taken.
TryAcquireContract ==
  [][ CallTryAcquire =>
        LET refilled == Min(config.burstSize * config.windowMs,
                            state.tokens + (now - state.lastRefill)
                                             * config.requestsPerUserPerMinute)
        IN /\ (lastTry' = "true") <=> (~(now < state.backoffUntil) /\ refilled >= OneToken)
           /\ lastTry' \in {"true", "false"}
           /\ lastTry' = "true" => state'.tokens = refilled - OneToken
           /\ lastTry' = "false" => state'.tokens >= state.tokens
           /\ pc' = pc /\ wakeAt' = wakeAt ]_vars

\* tryAcquire() was refused inside a backoff window although a token was there.
TryAcquireContractWitness ==
  /\ lastTry = "false"
  /\ isInBackoff
  /\ state.tokens >= OneToken

\* ------------------------------------------------- claims on the pipeline

\* The step in which handleError() of caller p runs on the response read.
Handles(p) == pc[p] = "text" /\ pc'[p] # "text"

\* The step throws an error to a caller.
Throws == finished'.kind \notin {"none", "ok"}

\* C1: with a refresh callback configured, a 401 is answered by one refresh
\* and retry per logical request; a 401 to the retried request throws
\* token-expired instead of refreshing again.
OneRefreshPerRequest ==
  [][ \A p \in Procs :
        (Handles(p) /\ req[p].status = UNAUTHORIZED /\ onTokenExpired) =>
          IF req[p].refreshes = 0
          THEN pc'[p] = "onTokenExpired"
          ELSE finished' = [ caller |-> p, kind |-> "TokenExpiredError",
                             status |-> UNAUTHORIZED ] ]_vars

\* C2 as stated: a request alone on an idle client with retryCount 0 that is
\* answered 429 every time makes 3 backoff-retries, 4 transport calls, and
\* then throws the rate-limited error; the wait before each retry is at least
\* initialBackoffMs * multiplier^k, k the number of consecutive backoffs.
SoloRetriesFollowUncappedSchedule ==
  [][ \A p \in Procs :
        (Handles(p) /\ req[p].alone429) =>
          IF req[p].retries < maxRetries
          THEN /\ pc'[p] = "backoff"
               /\ wakeAt'[p] - now >=
                    initialBackoffMs * Pow(backoffMultiplier, currentBackoffAttempt')
          ELSE /\ req[p].retries = maxRetries
               /\ req[p].calls = maxRetries + 1
               /\ finished' = [ caller |-> p, kind |-> "RateLimitError",
                                status |-> RATE_LIMITED ] ]_vars

\* C2, amended: the same, the wait before each retry being at least
\* min(initialBackoffMs * multiplier^k, maxBackoffMs), k the number of
\* consecutive backoffs of the limiter since its last reset.
SoloRetriesFollowCappedSchedule ==
  [][ \A p \in Procs :
        (Handles(p) /\ req[p].alone429) =>
          IF req[p].retries < maxRetries
          THEN /\ pc'[p] = "backoff"
               /\ req'[p].retries = req[p].retries + 1
               /\ wakeAt'[p] - now >=
                    Min(initialBackoffMs * Pow(backoffMultiplier, currentBackoffAttempt'),
                        maxBackoffMs)
          ELSE /\ req[p].retries = maxRetries
               /\ req[p].calls = maxRetries + 1
               /\ finished' = [ caller |-> p, kind |-> "RateLimitError",
                                status |-> RATE_LIMITED ] ]_vars

\* The fourth transport call of a request that was alone and answered 429
\* each time has been answered 429 as well, after the capped fifth
\* consecutive backoff of the limiter or a later one.
SoloRetriesWitness ==
  \E p \in Procs :
    /\ pc[p] = "text"
    /\ req[p].alone429
    /\ req[p].retries = maxRetries
    /\ req[p].calls = maxRetries + 1
    /\ currentBackoffAttempt > maxRetries

\* C8: whenever the pipeline throws an error to the caller, the retry
\* counter of the client has been reset to zero.
ThrowResetsRetryCount ==
  [][ Throws => retryCount' = 0 ]_vars

\* C9: when the body of a 429 carries a parseable retry-after hint, the
\* backoff before the retry takes the hint, in milliseconds, as its base
\* delay: it waits the hint plus a jitter of the hint.
BackoffUsesRetryAfterHint ==
  [][ \A p \in Procs :
        ( /\ Handles(p)
          /\ req[p].status = RATE_LIMITED
          /\ retryAfterMs(req[p].status, req[p].body) # None
          /\ pc'[p] = "backoff" ) =>
          LET hint == retryAfterMs(req[p].status, req[p].body)
          IN \E j \in 0..((hint * jitterPercent) \div 100) :
               wakeAt'[p] - now = hint + j ]_vars

\* C10: every response with a 5xx status is retried after a backoff while
\* the retry counter is below maxRetries, and is thrown as a generic API
\* error carrying that status only once the budget is exhausted.
ServerErrorsRetried ==
  [][ \A p \in Procs :
        (Handles(p) /\ req[p].status \in 500..599) =>
          IF retryCount < maxRetries
          THEN /\ pc'[p] = "backoff"
               /\ retryCount' = retryCount + 1
          ELSE finished' = [ caller |-> p, kind |-> "GoogleApiError",
                             status |-> req[p].status ] ]_vars

BackoffUntilNeverDecreases ==
  [][currentBackoffAttempt' = currentBackoffAttempt + 1 =>
       state'.backoffUntil >= state.backoffUntil]_vars

\* C18: a backoff() without a hint raises the counter by one and waits
\* base + jitter with base = min(initialBackoffMs * backoffMultiplier ^ n,
\* maxBackoffMs), n the counter after the increment, and 0 <= jitter <= 10% of
\* base; the first wait from a fresh limiter lies in the band of
\* initialBackoffMs * backoffMultiplier, and while the previous base was below
\* maxBackoffMs the wait exceeds every wait the previous backoff could make.
BackoffDelayGrows ==
  [][currentBackoffAttempt' # currentBackoffAttempt /\ currentBackoffAttempt' # 0 =>
       LET n == currentBackoffAttempt'
           base == Min(initialBackoffMs * Pow(backoffMultiplier, n), maxBackoffMs)
           prev == Min(initialBackoffMs * Pow(backoffMultiplier, n - 1), maxBackoffMs)
           wait == state'.backoffUntil - now
       IN /\ n = currentBackoffAttempt + 1
          /\ base <= wait
          /\ (wait - base) * 100 <= base * jitterPercent
          /\ n = 1 =>
               /\ initialBackoffMs * backoffMultiplier <= wait
               /\ (wait - initialBackoffMs * backoffMultiplier) * 100
                    <= initialBackoffMs * backoffMultiplier * jitterPercent
          /\ (n > 1 /\ prev < maxBackoffMs) =>
               wait * 100 > prev * (100 + jitterPercent)]_vars

\* The second of two consecutive backoffs, with the largest jitter, is being
\* slept: base 4000 ms and 399 ms of jitter.
BackoffDelayGrowsWitness ==
  /\ currentBackoffAttempt = 2
  /\ \E p \in Procs :
       /\ pc[p] = "backoff"
       /\ wakeAt[p] = now + 4399
       /\ state.backoffUntil = wakeAt[p]

\* C19: resetBackoff() leaves the consecutive-backoff counter at 0 and the
\* backoff-until timestamp cleared, so that isInBackoff() is false and
\* getRemainingBackoff() is 0 right after it; a second resetBackoff() changes
\* nothing.
ResetBackoffClears ==
  [][CallResetBackoff =>
       /\ currentBackoffAttempt' = 0
       /\ state'.backoffUntil = 0
       /\ ~isInBackoff'
       /\ getRemainingBackoff' = 0
       /\ resetBackoff(state') = state']_vars

\* resetBackoff() was called while a backoff was pending: a caller of
\* acquire() still sleeps through the window that has been cleared.
ResetBackoffClearsWitness ==
  /\ currentBackoffAttempt = 0
  /\ state.backoffUntil = 0
  /\ ~isInBackoff
  /\ \E p \in Procs : pc[p] = "waitForBackoff" /\ wakeAt[p] > now

\* C20: with no token granted in between, the token count read d ms after
\* a previous reading is min(burstSize, previous + d * requestsPerUserPerMinute
\* / windowMs), in the units of state.tokens.
TokenCountAfterElapsed ==
  observed.prevAt # None =>
    observed.tokens = Min(config.burstSize * config.windowMs,
                          observed.prevTokens
                            + (observed.at - observed.prevAt) * config.requestsPerUserPerMinute)

\* An emptied bucket was read, and read again once exactly one token had been
\* replenished, below the burst size.
TokenCountAfterElapsedWitness ==
  /\ observed.prevAt # None
  /\ observed.prevTokens = 0
  /\ observed.at > observed.prevAt
  /\ observed.tokens = OneToken
  /\ observed.tokens < config.burstSize * config.windowMs

\* C11: a 403, a 404, a 401 with no refresh callback and any other status
\* that is neither 429 nor a server error end the request on the spot: the
\* classified error is thrown to the caller, the limiter is left as it was
\* (no backoff), no refresh is started and the request is not issued again.
TerminalErrorsThrowClassified ==
  [][ \A p \in Procs :
        ( /\ Handles(p)
          /\ req[p].status \notin {RATE_LIMITED} \cup 500..599
          /\ req[p].status = UNAUTHORIZED => ~onTokenExpired ) =>
          /\ finished' =
               [ caller |-> p,
                 kind |-> CASE req[p].status = UNAUTHORIZED -> "TokenExpiredError"
                            [] req[p].status = FORBIDDEN -> "PermissionDeniedError"
                            [] req[p].status = NOT_FOUND -> "NotFoundError"
                            [] OTHER -> "GoogleApiError",
                 status |-> req[p].status ]
          /\ pc'[p] = "idle"
          /\ UNCHANGED <<state, currentBackoffAttempt, accessToken>> ]_vars

\* C13: createApiError returns a typed error for every status and every body;
\* it never throws.
CreateApiErrorNeverThrows ==
  error # NoError =>
    error.kind \in { "TokenExpiredError", "PermissionDeniedError", "NotFoundError",
                     "RateLimitError", "GoogleApiError" }

\* C14: whenever a request ends with an error thrown to its caller, the error
\* is a typed API error that carries the status of the response, a message,
\* the API name of the client and the raw body of the response.
ThrownErrorsCarryContext ==
  [][ \A p \in Procs :
        (Handles(p) /\ Throws) =>
          /\ error'.kind \in { "TokenExpiredError", "PermissionDeniedError",
                               "NotFoundError", "RateLimitError", "GoogleApiError" }
          /\ error'.status = req[p].status
          /\ error'.message # "none"
          /\ error'.apiType = ClientApiType
          /\ error'.responseBody = <<req[p].body>> ]_vars

\* C15: a response with a success status ends the request normally, with the
\* backoff and retry counters reset, whether or not it has content: nothing
\* is thrown to the caller.
SuccessNeverThrows ==
  [][ finished'.status \in 200..299 =>
        /\ finished'.kind = "ok"
        /\ error' = NoError
        /\ currentBackoffAttempt' = 0
        /\ retryCount' = 0 ]_vars

\* C16: createApiError(status, body) yields the error kind of the status, with
\* that status, and a message equal to the body's error.message when the body
\* is JSON carrying one, else "API error: <status>".
CreateApiErrorKindAndMessage ==
  error # NoError =>
    /\ error.kind = CASE call.status = 401 -> "TokenExpiredError"
                      [] call.status = 403 -> "PermissionDeniedError"
                      [] call.status = 404 -> "NotFoundError"
                      [] call.status = 429 -> "RateLimitError"
                      [] OTHER -> "GoogleApiError"
    /\ error.status = call.status
    /\ error.message = IF call.body.json /\ call.body.hasError /\ call.body.message # "none"
                       THEN call.body.message
                       ELSE "API error: " \o ToString(call.status)

\* C28: a transport call carries the credential the client holds when the
\* call goes out, after its acquire() resolved; when the refresh callback
\* returns a token the client holds it from then on, and the attempt issued
\* again takes a token of the limiter before it goes out with that credential.
BearerIsHeldCredential ==
  [][ \A p \in Procs :
        /\ (pc[p] # "fetch" /\ pc'[p] = "fetch") =>
             /\ req'[p].bearer = accessToken'
             /\ state'.tokens = refillTokens(state).tokens - OneToken
        /\ (pc[p] = "onTokenExpired" /\ pc'[p] # "onTokenExpired") =>
             /\ accessToken' \in RefreshedTokens
             /\ pc'[p] \in {"fetch", "sleep", "waitForBackoff"} ]_vars

\* After a refresh a call is out with the refreshed credential.
BearerIsHeldCredentialWitness ==
  \E p \in Procs :
    /\ pc[p] = "fetch"
    /\ req[p].refreshes >= 1
    /\ req[p].bearer = "t1"
    /\ accessToken = "t1"

\* C29: handling a 401 by refresh leaves the retry counter and the backoff
\* state of the limiter as they were, whatever the number of backoff-retries
\* the request has used; a request that is alone on its client is retried
\* after a retryable status exactly while its own backoff-retries are fewer
\* than maxRetries, refreshed or not.
RefreshKeepsRetryBudget ==
  [][ \A p \in Procs :
        /\ (Handles(p) /\ req[p].status = UNAUTHORIZED /\ onTokenExpired) =>
             /\ pc'[p] = "onTokenExpired"
             /\ UNCHANGED <<retryCount, currentBackoffAttempt, state>>
        /\ (pc[p] = "onTokenExpired" /\ pc'[p] # "onTokenExpired") =>
             /\ UNCHANGED <<retryCount, currentBackoffAttempt>>
             /\ state'.backoffUntil = state.backoffUntil
        /\ ( /\ Handles(p)
             /\ started = 1
             /\ req[p].status \in {RATE_LIMITED, SERVER_ERROR, SERVICE_UNAVAILABLE} ) =>
             /\ retryCount = req[p].retries
             /\ IF req[p].retries < maxRetries
                THEN pc'[p] = "backoff" /\ retryCount' = retryCount + 1
                ELSE Throws ]_vars

\* A request that has used all maxRetries backoff-retries is being refreshed.
RefreshKeepsRetryBudgetWitness ==
  \E p \in Procs :
    /\ pc[p] = "onTokenExpired"
    /\ started = 1
    /\ req[p].retries = maxRetries
    /\ retryCount = maxRetries

\* C30: the retry budget is per request: a 429 is answered by a backoff-retry
\* while the request itself has been retried fewer than maxRetries times, and
\* by the rate-limited error only after that, whatever the other requests in
\* flight on the client do.
RetryBudgetPerRequest ==
  [][ \A p \in Procs :
        (Handles(p) /\ req[p].status = RATE_LIMITED) =>
          IF req[p].retries < maxRetries
          THEN pc'[p] = "backoff"
          ELSE finished' = [ caller |-> p, kind |-> "RateLimitError",
                             status |-> RATE_LIMITED ] ]_vars

FactoryReturnsTaggedClient ==
  (clients # <<>> \/ error # NoError) =>
    IF fcall.api \in {"drive", "sheets", "calendar"}
    THEN /\ error = NoError
         /\ Len(clients) = 1
         /\ clients[1].class = CASE fcall.api = "drive" -> "GoogleDriveClient"
                                 [] fcall.api = "sheets" -> "GoogleSheetsClient"
                                 [] fcall.api = "calendar" -> "GoogleCalendarClient"
         /\ clients[1].baseUrl = API_ENDPOINTS[fcall.api]
         /\ DOMAIN fcall.config.rateLimits = {} =>
              limiters[clients[1].rateLimiter].config = API_RATE_LIMITS[fcall.api]
    ELSE /\ clients = <<>>
         /\ limiters = <<>>
         /\ entry = [p \in Procs |-> "none"]
         /\ listing = NoListing
         /\ transport = NoTransport
         /\ error.kind = "Error"
         /\ error.message = "Unknown API type: " \o fcall.api

\* The factory was called with a tag that differs from 'drive' by its case.
FactoryReturnsTaggedClientWitness ==
  /\ fcall.api = "Drive"
  /\ error.kind = "Error"
  /\ clients = <<>>

\* C23: clients made from one shared config share no state: a step that is
\* an operation on a client changes what can be seen of at most that one
\* client, and making a further client changes nothing of those there are.
ClientsShareNothing ==
  [][ IF Len(clients') = Len(clients)
      THEN Cardinality({ i \in DOMAIN clients : View(i)' # View(i) }) <= 1
      ELSE \A i \in DOMAIN clients : View(i)' = View(i) ]_vars

\* A token was taken from the first client, it backed off once and its
\* credential was replaced; the second client is as it was constructed.
ClientsShareNothingWitness ==
  /\ Len(clients) >= 2
  /\ clients[1].accessToken = "t1"
  /\ clients[1].retryCount = 1
  /\ limiters[clients[1].rateLimiter].state.tokens
       < limiters[clients[1].rateLimiter].config.burstSize
           * limiters[clients[1].rateLimiter].config.windowMs
  /\ limiters[clients[1].rateLimiter].state.backoffUntil > 0
  /\ clients[2].accessToken = "t0"
  /\ clients[2].retryCount = 0
  /\ limiters[clients[2].rateLimiter]
       = RateLimiter(mergeRateLimits(API_RATE_LIMITS[clients[2].apiType],
                                     fcall.config.rateLimits))

\* C24: the limiter of a client takes each field of its profile from the
\* rateLimits of the config when it is given there and from the defaults of
\* the API type otherwise, and the token count of the new client is the
\* burstSize of that profile: 2 when rateLimits gives burstSize 2, the default
\* of the API type when it gives none.
OverrideMergesWithDefaults ==
  \A i \in DOMAIN clients :
    LET limiter == limiters[clients[i].rateLimiter]
        given == fcall.config.rateLimits
        defaults == API_RATE_LIMITS[clients[i].apiType]
    IN /\ \A f \in RateLimitFields :
            limiter.config[f] = IF f \in DOMAIN given THEN given[f] ELSE defaults[f]
       /\ getTokenCountOf(limiter) = limiter.config.burstSize
       /\ getTokenCountOf(limiter) = IF "burstSize" \in DOMAIN given
                                     THEN 2
                                     ELSE defaults.burstSize

\* A Sheets client made with rateLimits { burstSize: 2 }: 2 tokens, at the
\* rate of the Sheets defaults.
OverrideMergesWithDefaultsWitness ==
  /\ Len(clients) = 1
  /\ clients[1].apiType = "sheets"
  /\ DOMAIN fcall.config.rateLimits = {"burstSize"}
  /\ getTokenCountOf(limiters[clients[1].rateLimiter]) = 2
  /\ limiters[clients[1].rateLimiter].config.requestsPerUserPerMinute = 60

\* The number of items of pages 1..i of an endpoint.
RECURSIVE ItemsThrough(_, _)
ItemsThrough(server, i) == IF i = 0 THEN 0 ELSE ItemsThrough(server, i - 1) + server[i]

\* The items of pages 1..i, in order.
RECURSIVE PagesThrough(_, _)
PagesThrough(server, i) ==
  IF i = 0 THEN <<>> ELSE PagesThrough(server, i - 1) \o PageFiles(server, i)

\* The first page that carries no next-page token or at which the item count
\* reaches the cap.
StopPage(server, maxResults) ==
  CHOOSE i \in 1..Len(server) :
    /\ \/ NextPageToken(server, i) = None
       \/ maxResults # None /\ ItemsThrough(server, i) >= maxResults
    /\ \A k \in 1..(i - 1) :
         /\ NextPageToken(server, k) # None
         /\ ~(maxResults # None /\ ItemsThrough(server, k) >= maxResults)

\* C21: an auto-paginating listing requests its pages in sequence, the first
\* without a page token and each next one with the token the page before
\* returned; it requests no page after the first one that carries no next-page
\* token or at which the accumulated item count reaches maxResults, and what
\* it returns is the fetched pages in order, cut to maxResults items when a
\* cap is given.
ListingFollowsPagesAndCap ==
  LET stop == StopPage(listing.server, listing.maxResults) IN
  /\ listing.status # "none" =>
       /\ listing.sent[1] = None
       /\ \A i \in 2..Len(listing.sent) :
            listing.sent[i] = NextPageToken(listing.server, i - 1)
       /\ Len(listing.sent) <= stop
  /\ listing.status = "returned" =>
       /\ Len(listing.sent) = stop
       /\ listing.result =
            IF listing.maxResults = None
            THEN PagesThrough(listing.server, stop)
            ELSE slice(PagesThrough(listing.server, stop), listing.maxResults)

\* The listing as the code has it: a cap of 0 is no cap at all.
ListingFollowsPagesAndPositiveCap ==
  LET cap == IF listing.maxResults = 0 THEN None ELSE listing.maxResults
      stop == StopPage(listing.server, cap)
  IN
  /\ listing.status # "none" =>
       /\ listing.sent[1] = None
       /\ \A i \in 2..Len(listing.sent) :
            listing.sent[i] = NextPageToken(listing.server, i - 1)
       /\ Len(listing.sent) <= stop
  /\ listing.status = "returned" =>
       /\ Len(listing.sent) = stop
       /\ listing.result =
            IF cap = None
            THEN PagesThrough(listing.server, stop)
            ELSE slice(PagesThrough(listing.server, stop), cap)

\* C27: every transport call a client makes (a first attempt, a retry after a
\* backoff or a refresh, a page of a listing, the Sheets listing that goes to
\* the Drive address, a download) comes after its own acquire(): the client
\* has never issued more transport calls than it has taken tokens.
TransportCallsHaveTokens == transport.calls <= transport.consumed

\* The retry after a backoff of one caller is out, another caller has
\* downloaded, and the client has made all the calls it is followed for.
TransportCallsHaveTokensWitness ==
  /\ transport.calls = MaxTransportCalls
  /\ \E p, q \in Procs :
       /\ pc[p] = "fetch"
       /\ req[p].retries >= 1
       /\ entry[q] = "downloadFile"
       /\ finished.caller = q

\* C26: downloadFile() takes exactly one token as its one transport call goes
\* out; a success status resets the limiter's backoff counter and window and
\* ends the operation; any other status makes it throw, after that one call,
\* with no refresh, backoff or retry and with the credential, the retry
\* counter and the backoff state as they were.
DownloadTakesOneTokenAndNeverRetries ==
  [][\A p \in Procs :
       /\ (entry'[p] = "downloadFile" /\ pc[p] # "download" /\ pc'[p] = "download") =>
            /\ transport'.consumed = transport.consumed + 1
            /\ transport'.calls = transport.calls + 1
            /\ req'[p].calls = 1
       /\ (entry[p] = "downloadFile" /\ pc[p] = "download" /\ pc'[p] # "download") =>
            /\ transport' = transport
            /\ accessToken' = accessToken
            /\ retryCount' = retryCount
            /\ IF finished'.kind = "ok"
               THEN /\ pc'[p] = "idle"
                    /\ currentBackoffAttempt' = 0
                    /\ state'.backoffUntil = 0
               ELSE /\ pc'[p] = "downloadText"
                    /\ finished' = NothingFinished
                    /\ currentBackoffAttempt' = currentBackoffAttempt
                    /\ state' = state
       /\ (entry[p] = "downloadFile" /\ pc[p] = "downloadText" /\ pc'[p] # "downloadText") =>
            /\ pc'[p] = "idle"
            /\ finished'.caller = p
            /\ finished'.kind = "Error"
            /\ UNCHANGED <<transport, accessToken, retryCount, currentBackoffAttempt, state>>
  ]_vars

\* A download failed on a 401 of a client that has a refresh callback, while
\* the limiter was backing off for another caller.
DownloadTakesOneTokenAndNeverRetriesWitness ==
  \E p, q \in Procs :
    /\ entry[p] = "downloadFile"
    /\ finished.caller = p
    /\ finished.kind = "Error"
    /\ finished.status = UNAUTHORIZED
    /\ onTokenExpired
    /\ pc[q] = "backoff"
    /\ currentBackoffAttempt > 0

\* A download succeeded while the limiter was backing off for another caller.
DownloadResetsBackoffWitness ==
  \E p, q \in Procs :
    /\ entry[p] = "downloadFile"
    /\ finished.caller = p
    /\ finished.kind = "ok"
    /\ pc[q] = "backoff"

====
